---- MODULE Spec2Model ----
(***************************************************************************)
(* SumTree (UtilsRL/data_structure/sum_tree.py): a padded binary tree kept *)
(* in a flat array `value`; leaves are the ring-buffer slots, every inner  *)
(* node is meant to hold the sum of its two children.                      *)
(*                                                                         *)
(* Weights are modelled as small integers (exactly representable in the    *)
(* float64 array the code allocates); a find target is a multiple of       *)
(* 1/Scale, carried as its numerator.                                      *)
(***************************************************************************)
EXTENDS Integers, Sequences, FiniteSets

\* ---------------------------------------------------------------- bounds
MaxCap == 4
MaxW == 2
RingMaxW == 4
MaxAdds == 5
Scale == 1
SlotSlack == 1

Capacities == 0..MaxCap
Weights == 0..MaxW
RingWeights == 0..RingMaxW
AnyWeights == (0 - 1)..1

\* the populated tree of the find example: slots 0..3 hold 1, 2, 3, 4
ExampleLeaves == <<1, 2, 3, 4>>

VARIABLES
    alive,       \* TRUE iff the constructor returned an object
    max_size,    \* self.max_size
    tree_depth,  \* self.tree_depth
    tree_size,   \* self.tree_size
    curr,        \* self.curr
    size,        \* self.size
    value,       \* self.value, a function 0..tree_size-1 -> weight
    call,        \* the last call: its name and arguments
    ret,         \* what the last call returned (0 when it returned None)
    exc,         \* the exception the last call raised, "none" when it returned
    nadd,        \* history: number of add() calls so far
    hist,        \* history: the values given to add(), in order (SpecRing only)
    written,     \* history: slots written by update or add (SpecHist only)
    appended,    \* history: slots written by add (SpecHist only)
    repeat,      \* history: the last call repeated the call before it (SpecHist only)
    walk,        \* update in progress: position in its while loop (SpecSteps only)
    descent      \* find in progress: position in _find_helper (SpecSteps only)

fields == <<alive, max_size, tree_depth, tree_size, curr, size, value>>
history == <<written, appended, repeat>>
frames == <<walk, descent>>
vars == <<alive, max_size, tree_depth, tree_size, curr, size, value,
          call, ret, exc, nadd, hist, written, appended, repeat, walk, descent>>

\* ------------------------------------------------------- pure arithmetic
RECURSIVE Pow2(_)
Pow2(n) ==
    IF n <= 0 THEN 1 ELSE 2 * Pow2(n - 1)

\* math.ceil(math.log2(n)) for n >= 1
RECURSIVE CeilLog2Floor(_)
CeilLog2Floor(n) ==
    IF n <= 1 THEN 0 ELSE 1 + CeilLog2Floor(n \div 2)

RECURSIVE CeilLog2(_)
CeilLog2(n) ==
    IF n <= 1 THEN 0 ELSE 1 + CeilLog2((n + 1) \div 2)

Min(a, b) ==
    IF a <= b THEN a ELSE b

SetMax(S) ==
    CHOOSE m \in S : \A x \in S : x <= m

\* numpy indexing of a 1-d array of length n: -n <= i < n, negatives wrap
InBounds(n, i) ==
    (0 - n) <= i /\ i < n

Wrap(n, i) ==
    IF i < 0 THEN i + n ELSE i

Call(op, idx, new_value, target, normalize) ==
    [op |-> op, idx |-> idx, new_value |-> new_value,
     target |-> target, normalize |-> normalize]

\* ----------------------------------------------------------- __init__
\* math.log2 raises ValueError for max_size <= 0: no object is returned.
init(n) ==
        /\ call = Call("__init__", n, 0, 0, FALSE)
        /\ ret = 0
        /\ nadd = 0
        /\ hist = << >>
        /\ written = {}
        /\ appended = {}
        /\ repeat = FALSE
        /\ walk = [pc |-> "none", idx |-> 0, diff |-> 0, steps |-> 0, roots |-> 0]
        /\ descent = [pc |-> "none", index |-> 0, target |-> 0, steps |-> 0]
        /\ max_size = n
        /\ curr = 0
        /\ size = 0
        /\ IF n <= 0
           THEN /\ alive = FALSE
                /\ exc = "ValueError"
                /\ tree_depth = 0
                /\ tree_size = 0
                /\ value = [i \in {} |-> 0]
           ELSE /\ alive = TRUE
                /\ exc = "none"
                /\ tree_depth = CeilLog2(n)
                /\ tree_size = Pow2(CeilLog2(n) + 1) - 1
                /\ value = [i \in 0..(Pow2(CeilLog2(n) + 1) - 2) |-> 0]

Init ==
    \E n \in Capacities : init(n)

\* ------------------------------------------------------------- update
\* the while loop of update: add diff to every ancestor of idx
RECURSIVE WalkSkipRoot(_, _, _)
WalkSkipRoot(v, idx, diff) ==
    IF (idx - 1) \div 2 > 0
    THEN WalkSkipRoot([v EXCEPT ![(idx - 1) \div 2] = @ + diff],
                      (idx - 1) \div 2, diff)
    ELSE v

RECURSIVE WalkWrongParent(_, _, _)
WalkWrongParent(v, idx, diff) ==
    IF idx > 0
    THEN WalkWrongParent([v EXCEPT ![idx \div 2] = @ + diff], idx \div 2, diff)
    ELSE v

RECURSIVE Walk(_, _, _)
Walk(v, idx, diff) ==
    IF (idx - 1) \div 2 >= 0
    THEN Walk([v EXCEPT ![(idx - 1) \div 2] = @ + diff], (idx - 1) \div 2, diff)
    ELSE v

Updated_nodelta(v, idx, new_value) ==
    LET leaf == idx + Pow2(tree_depth) - 1
    IN  Walk([v EXCEPT ![Wrap(tree_size, leaf)] = new_value], leaf, new_value)

\* the array update(idx, new_value) leaves behind, for an index numpy accepts
Updated(v, idx, new_value) ==
    LET leaf == idx + Pow2(tree_depth) - 1
        diff == new_value - v[Wrap(tree_size, leaf)]
    IN  Walk([v EXCEPT ![Wrap(tree_size, leaf)] = new_value], leaf, diff)

update_counts(idx, new_value) ==
    /\ alive
    /\ call' = Call("update", idx, new_value, 0, FALSE)
    /\ ret' = 0
    /\ exc' = "none"
    /\ value' = Updated(value, idx, new_value)
    /\ size' = Min(size + 1, max_size)
    /\ UNCHANGED <<alive, max_size, tree_depth, tree_size, curr, nadd, hist, frames>>

update(idx, new_value) ==
    /\ alive
    /\ call' = Call("update", idx, new_value, 0, FALSE)
    /\ ret' = 0
    /\ IF InBounds(tree_size, idx + Pow2(tree_depth) - 1)
       THEN /\ value' = Updated(value, idx, new_value)
            /\ exc' = "none"
       ELSE /\ value' = value
            /\ exc' = "IndexError"
    /\ UNCHANGED <<alive, max_size, tree_depth, tree_size, curr, size, nadd, hist, frames>>

\* ---------------------------------------------------------------- add
add_advance_first(new_value) ==
    /\ alive
    /\ nadd < MaxAdds
    /\ call' = Call("add", curr, new_value, 0, FALSE)
    /\ ret' = 0
    /\ exc' = "none"
    /\ value' = Updated(value, (curr + 1) % max_size, new_value)
    /\ curr' = (curr + 1) % max_size
    /\ size' = Min(size + 1, max_size)
    /\ nadd' = nadd + 1
    /\ UNCHANGED <<alive, max_size, tree_depth, tree_size, frames>>

add_nosat(new_value) ==
    /\ alive
    /\ nadd < MaxAdds
    /\ call' = Call("add", curr, new_value, 0, FALSE)
    /\ ret' = 0
    /\ exc' = "none"
    /\ value' = Updated(value, curr, new_value)
    /\ curr' = (curr + 1) % max_size
    /\ size' = size + 1
    /\ nadd' = nadd + 1
    /\ UNCHANGED <<alive, max_size, tree_depth, tree_size, frames>>

\* add(new_value): update at the cursor, then advance the cursor and the count.
\* The cursor is always a valid slot, so the inner update never raises.
add(new_value) ==
    /\ alive
    /\ nadd < MaxAdds
    /\ call' = Call("add", curr, new_value, 0, FALSE)
    /\ ret' = 0
    /\ exc' = "none"
    /\ value' = Updated(value, curr, new_value)
    /\ curr' = (curr + 1) % max_size
    /\ size' = Min(size + 1, max_size)
    /\ nadd' = nadd + 1
    /\ UNCHANGED <<alive, max_size, tree_depth, tree_size, frames>>

\* --------------------------------------------------------------- find
\* _find_helper returns the pair (slot, weight of the leaf); target is in
\* units of 1/Scale, so a stored weight w compares as Scale * w.
RECURSIVE find_helper_strict(_, _, _)
find_helper_strict(v, target, index) ==
    IF 2 * index + 1 > tree_size - 1
    THEN <<index - Pow2(tree_depth) + 1, v[index]>>
    ELSE IF target < Scale * v[2 * index + 1]
         THEN find_helper_strict(v, target, 2 * index + 1)
         ELSE find_helper_strict(v, target - Scale * v[2 * index + 1], 2 * index + 2)

RECURSIVE find_helper_nosub(_, _, _)
find_helper_nosub(v, target, index) ==
    IF 2 * index + 1 > tree_size - 1
    THEN <<index - Pow2(tree_depth) + 1, v[index]>>
    ELSE IF target <= Scale * v[2 * index + 1]
         THEN find_helper_nosub(v, target, 2 * index + 1)
         ELSE find_helper_nosub(v, target, 2 * index + 2)

RECURSIVE find_helper(_, _, _)
find_helper(v, target, index) ==
    IF 2 * index + 1 > tree_size - 1
    THEN <<index - Pow2(tree_depth) + 1, v[index]>>
    ELSE IF target <= Scale * v[2 * index + 1]
         THEN find_helper(v, target, 2 * index + 1)
         ELSE find_helper(v, target - Scale * v[2 * index + 1], 2 * index + 2)

find_unscaled(target, normalize) ==
    /\ alive
    /\ call' = Call("find", 0, 0, target, normalize)
    /\ ret' = find_helper(value, target, 0)[1]
    /\ exc' = "none"
    /\ UNCHANGED <<fields, nadd, hist, history, frames>>

find(target, normalize) ==
    /\ alive
    /\ call' = Call("find", 0, 0, target, normalize)
    /\ ret' = find_helper(value, IF normalize THEN target * value[0] ELSE target, 0)[1]
    /\ exc' = "none"
    /\ UNCHANGED <<fields, nadd, hist, history, frames>>

\* -------------------------------------------------------------- total
total ==
    /\ alive
    /\ call' = Call("total", 0, 0, 0, FALSE)
    /\ ret' = value[0]
    /\ exc' = "none"
    /\ UNCHANGED <<fields, nadd, hist, history, frames>>

\* ---------------------------------------------------------------- max
\* value[start:start+size] is clipped to the array; np.max of an empty
\* slice raises ValueError.
max_slice ==
    { i \in 0..(tree_size - 1) :
        Pow2(tree_depth) + 1 <= i /\ i < Pow2(tree_depth) + 1 + size }

max ==
    /\ alive
    /\ call' = Call("max", 0, 0, 0, FALSE)
    /\ IF size = 0
       THEN ret' = 0 /\ exc' = "none"
       ELSE IF max_slice = {}
            THEN ret' = 0 /\ exc' = "ValueError"
            ELSE ret' = SetMax({ value[i] : i \in max_slice }) /\ exc' = "none"
    /\ UNCHANGED <<fields, nadd, hist, history, frames>>

\* ------------------------------------------------------ specifications
Slots == 0..(max_size - 1)
AnySlots == (0 - SlotSlack)..(max_size - 1 + SlotSlack)
Targets == (0 - 1)..(Scale * value[0] + 1)
Fractions == (0 - 1)..(Scale + 1)

\* valid calls only: slot in range, weight >= 0
Update ==
    \E idx \in Slots, w \in Weights : update(idx, w) /\ UNCHANGED history

Add ==
    \E w \in Weights : add(w) /\ UNCHANGED <<hist, history>>

Find ==
    /\ alive
    /\ \E t \in Targets : find(t, FALSE)

FindNormalized ==
    \E t \in Fractions : find(t, TRUE)

Total ==
    total

Max ==
    max

Next ==
    \/ Update
    \/ Add
    \/ Find
    \/ FindNormalized
    \/ Total
    \/ Max

Spec == Init /\ [][Next]_vars

\* the two writers alone
NextWrite ==
    \/ Update
    \/ Add

SpecWrite == Init /\ [][NextWrite]_vars

\* appends only, with the appended values remembered
AddRing ==
    \E w \in RingWeights : add(w) /\ hist' = Append(hist, w) /\ UNCHANGED history

NextRing ==
    \/ AddRing
    \/ Total

SpecRing == Init /\ [][NextRing]_vars

\* slots outside [0, max_size) too: the code checks no index itself
UpdateAnySlot ==
    \E idx \in AnySlots, w \in Weights : update(idx, w) /\ UNCHANGED history

NextSlot ==
    \/ UpdateAnySlot
    \/ Add

SpecSlot == Init /\ [][NextSlot]_vars

\* negative weights too: the code checks no weight
UpdateAnyWeight ==
    \E idx \in Slots, w \in AnyWeights : update(idx, w) /\ UNCHANGED history

AddAnyWeight ==
    \E w \in AnyWeights : add(w) /\ UNCHANGED <<hist, history>>

NextNeg ==
    \/ UpdateAnyWeight
    \/ AddAnyWeight

SpecNeg == Init /\ [][NextNeg]_vars

\* the find example: a tree of capacity 4 written with the example's weights
InitExample ==
    init(Len(ExampleLeaves))

UpdateExample ==
    \E idx \in Slots, k \in 1..Len(ExampleLeaves) :
        update(idx, ExampleLeaves[k]) /\ UNCHANGED history

NextExample ==
    \/ UpdateExample
    \/ Find
    \/ Total

SpecExample == InitExample /\ [][NextExample]_vars

\* every write remembered: which slots update and add have written, and
\* whether a call repeats the one before it
UpdateHist ==
    \E idx \in Slots, w \in Weights :
        /\ update(idx, w)
        /\ written' = written \cup {idx}
        /\ appended' = appended
        /\ repeat' = (call' = call)

AddHist ==
    \E w \in Weights :
        /\ add(w)
        /\ written' = written \cup {curr}
        /\ appended' = appended \cup {curr}
        /\ repeat' = (call' = call)
        /\ hist' = hist

NextHist ==
    \/ UpdateHist
    \/ AddHist

SpecHist == Init /\ [][NextHist]_vars

\* ------------------------------------------------ update, step by step
\* lines 15-17: locate the leaf, compute diff, write the leaf
update_begin(idx, new_value) ==
    /\ alive
    /\ call' = Call("update", idx, new_value, 0, FALSE)
    /\ ret' = 0
    /\ IF InBounds(tree_size, idx + Pow2(tree_depth) - 1)
       THEN LET leaf == idx + Pow2(tree_depth) - 1
            IN  /\ value' = [value EXCEPT ![Wrap(tree_size, leaf)] = new_value]
                /\ walk' = [pc |-> "loop", idx |-> leaf,
                            diff |-> new_value - value[Wrap(tree_size, leaf)],
                            steps |-> 0, roots |-> 0]
                /\ exc' = "none"
       ELSE /\ value' = value
            /\ walk' = walk
            /\ exc' = "IndexError"
    /\ UNCHANGED <<alive, max_size, tree_depth, tree_size, curr, size,
                   nadd, hist, history, descent>>

update_step_skiproot ==
    /\ walk.pc = "loop"
    /\ IF (walk.idx - 1) \div 2 > 0
       THEN /\ value' = [value EXCEPT ![(walk.idx - 1) \div 2] = @ + walk.diff]
            /\ walk' = [walk EXCEPT !.idx = (walk.idx - 1) \div 2, !.steps = @ + 1]
       ELSE /\ value' = value
            /\ walk' = [walk EXCEPT !.pc = "returned"]
    /\ UNCHANGED <<alive, max_size, tree_depth, tree_size, curr, size,
                   call, ret, exc, nadd, hist, history, descent>>

update_step_wrongparent ==
    /\ walk.pc = "loop"
    /\ IF walk.idx > 0
       THEN /\ value' = [value EXCEPT ![walk.idx \div 2] = @ + walk.diff]
            /\ walk' = [walk EXCEPT !.idx = walk.idx \div 2, !.steps = @ + 1,
                                    !.roots = @ + (IF walk.idx \div 2 = 0 THEN 1 ELSE 0)]
       ELSE /\ value' = value
            /\ walk' = [walk EXCEPT !.pc = "returned"]
    /\ UNCHANGED <<alive, max_size, tree_depth, tree_size, curr, size,
                   call, ret, exc, nadd, hist, history, descent>>

\* lines 18-21: one test of the while condition, and one pass of its body
\* when the test succeeds; the method returns when it fails
update_step ==
    /\ walk.pc = "loop"
    /\ IF (walk.idx - 1) \div 2 >= 0
       THEN LET father == (walk.idx - 1) \div 2
            IN  /\ value' = [value EXCEPT ![father] = @ + walk.diff]
                /\ walk' = [walk EXCEPT !.idx = father, !.steps = @ + 1,
                                        !.roots = @ + (IF father = 0 THEN 1 ELSE 0)]
       ELSE /\ value' = value
            /\ walk' = [walk EXCEPT !.pc = "returned"]
    /\ UNCHANGED <<alive, max_size, tree_depth, tree_size, curr, size,
                   call, ret, exc, nadd, hist, history, descent>>

\* -------------------------------------------------- find, step by step
\* lines 30-32: scale the target and enter _find_helper at the root
find_begin(target, normalize) ==
    /\ alive
    /\ call' = Call("find", 0, 0, target, normalize)
    /\ descent' = [pc |-> "loop", index |-> 0,
                   target |-> IF normalize THEN target * value[0] ELSE target,
                   steps |-> 0]
    /\ UNCHANGED <<fields, ret, exc, nadd, hist, history, walk>>

\* lines 35-42: one call of _find_helper: return at a leaf, else descend
find_step ==
    /\ descent.pc = "loop"
    /\ IF 2 * descent.index + 1 > tree_size - 1
       THEN /\ ret' = descent.index - Pow2(tree_depth) + 1
            /\ exc' = "none"
            /\ descent' = [descent EXCEPT !.pc = "returned"]
       ELSE /\ UNCHANGED <<ret, exc>>
            /\ LET left_value == value[2 * descent.index + 1]
               IN  IF descent.target <= Scale * left_value
                   THEN descent' = [descent EXCEPT !.index = 2 * @ + 1,
                                                   !.steps = @ + 1]
                   ELSE descent' = [descent EXCEPT !.index = 2 * @ + 2,
                                                   !.target = @ - Scale * left_value,
                                                   !.steps = @ + 1]
    /\ UNCHANGED <<fields, call, nadd, hist, history, walk>>

\* the weights written in the step-by-step specifications
StepWeights == {0, 1}

\* one caller: a method starts when none is running, and its loop runs on
Idle ==
    walk.pc # "loop" /\ descent.pc # "loop"

UpdateBegin ==
    \E idx \in Slots, w \in StepWeights : Idle /\ update_begin(idx, w)

UpdateStep ==
    update_step

FindBegin ==
    /\ alive
    /\ Idle
    /\ \/ \E t \in Targets : find_begin(t, FALSE)
       \/ \E t \in Fractions : find_begin(t, TRUE)

FindStep ==
    find_step

NextSteps ==
    \/ UpdateBegin
    \/ UpdateStep
    \/ FindBegin
    \/ FindStep

SpecSteps ==
    Init /\ [][NextSteps]_vars /\ WF_vars(UpdateStep) /\ WF_vars(FindStep)

\* a writer running update step by step while readers run between its steps
WriterBegin ==
    \E idx \in Slots, w \in StepWeights : walk.pc # "loop" /\ update_begin(idx, w)

WriterStep ==
    update_step

ReaderTotal ==
    total

ReaderFind ==
    /\ alive
    /\ \E t \in Targets : find(t, FALSE)

NextConc ==
    \/ WriterBegin
    \/ WriterStep
    \/ ReaderTotal
    \/ ReaderFind

SpecConc == Init /\ [][NextConc]_vars

\* ============================================================== claims
\* the weight of logical slot s: leaf index s + 2^depth - 1
Leaf(s) ==
    value[s + Pow2(tree_depth) - 1]

NLeaves ==
    Pow2(tree_depth)

\* cumulative weight of the leaves 0..s, left to right
RECURSIVE Prefix(_)
Prefix(s) ==
    IF s < 0 THEN 0 ELSE Prefix(s - 1) + Leaf(s)

SetMin(S) ==
    CHOOSE m \in S : \A x \in S : m <= x

SmallestSlot(target) ==
    SetMin({ s \in 0..(NLeaves - 1) : Scale * Prefix(s) >= target })

InternalSums ==
    \A i \in 0..(NLeaves - 2) : value[i] = value[2 * i + 1] + value[2 * i + 2]

\* C1: after every valid update/add, every internal node holds the sum of its
\* two children and total() is the sum of all leaf weights.
SumInvariant ==
    alive =>
        /\ InternalSums
        /\ value[0] = Prefix(NLeaves - 1)
        /\ (call.op = "total" => ret = Prefix(NLeaves - 1))

SumInvariantWitness ==
    /\ alive
    /\ call.op = "update"
    /\ tree_depth = 2
    /\ nadd > 0
    /\ value[0] >= 3
    /\ Leaf(2) > 0

\* C2: for 0 <= target <= total(), find(target, normalize=False) returns the
\* smallest slot whose cumulative weight reaches target (ties go left).
FindCorrect ==
    (call.op = "find" /\ ~call.normalize
        /\ 0 <= call.target /\ call.target <= Scale * value[0])
    => (exc = "none" /\ ret = SmallestSlot(call.target))

FindCorrectWitness ==
    /\ call.op = "find"
    /\ ~call.normalize
    /\ max_size >= 3
    /\ Leaf(0) > 0 /\ Leaf(1) > 0 /\ Leaf(2) > 0
    /\ call.target = Scale * (Leaf(0) + Leaf(1))
    /\ ret = 1

ExampleTree ==
    /\ alive
    /\ max_size = Len(ExampleLeaves)
    /\ \A s \in 0..(max_size - 1) : Leaf(s) = ExampleLeaves[s + 1]

\* C3 as stated: on the tree 1, 2, 3, 4, find(0.0) is slot 0 and find(1.0) is
\* slot 1.
FindExampleAsStated ==
    (ExampleTree /\ call.op = "find" /\ ~call.normalize) =>
        /\ value[0] = 10
        /\ (call.target = 0 => ret = 0)
        /\ (call.target = Scale * 1 => ret = 1)

\* C3 amended: on the tree 1, 2, 3, 4 (total 10), find(0.0) is slot 0 and
\* find(1.0) is slot 0 too: a target equal to the cumulative weight of slot 0
\* selects slot 0, the slot whose range ends at that boundary.
FindExample ==
    (ExampleTree /\ call.op = "find" /\ ~call.normalize) =>
        /\ value[0] = 10
        /\ (call.target = 0 => ret = 0)
        /\ (call.target = Scale * 1 => ret = 0)

FindExampleWitness ==
    /\ ExampleTree
    /\ call.op = "find"
    /\ ~call.normalize
    /\ call.target = Scale * 1
    /\ ret = 0

\* C4: whenever max() returns, it returns the largest weight among the
\* populated slots 0..size-1, and 0 when size = 0.
MaxPopulated ==
    (call.op = "max" /\ exc = "none") =>
        ret = IF size = 0 THEN 0 ELSE SetMax({ Leaf(s) : s \in 0..(size - 1) })

\* the appends that landed on slot s, by their position 1..nadd in hist
LandedOn(s) ==
    { k \in 1..Len(hist) : (k - 1) % max_size = s }

\* what slot s must hold after the appends of hist: the last value that landed
\* on it, 0 if none did
RingLeaf(s) ==
    IF LandedOn(s) = {} THEN 0 ELSE hist[SetMax(LandedOn(s))]

RECURSIVE RingSum(_)
RingSum(s) ==
    IF s < 0 THEN 0 ELSE RingSum(s - 1) + RingLeaf(s)

\* C5: the k-th append lands on slot (k-1) mod capacity; the leaves hold the
\* last appended weight of each slot (after n >= capacity appends, the last
\* capacity weights), total() is their sum and no ancestor keeps an evicted
\* weight; capacity 3 with appends 1, 2, 3 totals 6, and 9 after append(4).
RingEviction ==
    alive =>
        /\ Len(hist) = nadd
        /\ (call.op = "add" => call.idx = (nadd - 1) % max_size)
        /\ \A s \in 0..(max_size - 1) : Leaf(s) = RingLeaf(s)
        /\ value[0] = RingSum(max_size - 1)
        /\ (call.op = "total" => ret = RingSum(max_size - 1))
        /\ InternalSums
        /\ (max_size = 3 /\ hist = <<1, 2, 3>> => value[0] = 6)
        /\ (max_size = 3 /\ hist = <<1, 2, 3, 4>> => value[0] = 9 /\ Leaf(0) = 4)

RingEvictionWitness ==
    /\ alive
    /\ max_size = 3
    /\ hist = <<1, 2, 3, 4>>
    /\ call.op = "total"
    /\ ret = 9

\* C6: add(w) leaves the array update(curr, w) would leave, advances curr
\* modulo max_size, raises size up to max_size, and changes nothing else.
AppendIsUpdate ==
    [][call'.op = "add" =>
        /\ value' = Updated(value, curr, call'.new_value)
        /\ curr' = (curr + 1) % max_size
        /\ size' = Min(size + 1, max_size)
        /\ UNCHANGED <<alive, max_size, tree_depth, tree_size>>]_vars

AppendIsUpdateWitness ==
    /\ alive
    /\ call.op = "add"
    /\ max_size >= 2
    /\ nadd > max_size
    /\ call.new_value > 0
    /\ Leaf(call.idx) = call.new_value

\* C7: update with a slot outside [0, max_size) raises and changes nothing.
BadSlotRejected ==
    [][(call'.op = "update" /\ ~(0 <= call'.idx /\ call'.idx < max_size))
        => (exc' = "IndexError" /\ UNCHANGED fields)]_vars

\* C8: update and add with a negative weight raise and change nothing, so no
\* stored weight is ever negative.
NegativeRejected ==
    /\ [](alive => \A i \in 0..(tree_size - 1) : value[i] >= 0)
    /\ [][(call'.op \in {"update", "add"} /\ call'.new_value < 0)
          => (exc' # "none" /\ UNCHANGED fields)]_vars

\* C9: construction with capacity 0 fails; with capacity >= 1 the depth is
\* ceil(log2(capacity)), the array has 2^(depth+1)-1 zero entries, and the
\* cursor and the count are 0.
Construction ==
    call.op = "__init__" =>
        IF max_size = 0
        THEN ~alive /\ exc # "none"
        ELSE /\ alive /\ exc = "none"
             /\ Pow2(tree_depth) >= max_size
             /\ (tree_depth = 0 \/ Pow2(tree_depth - 1) < max_size)
             /\ (max_size = 1 => tree_depth = 0)
             /\ tree_size = Pow2(tree_depth + 1) - 1
             /\ DOMAIN value = 0..(Pow2(tree_depth + 1) - 2)
             /\ \A i \in DOMAIN value : value[i] = 0
             /\ curr = 0
             /\ size = 0

ConstructionWitness ==
    /\ call.op = "__init__"
    /\ alive
    /\ max_size = 3
    /\ tree_depth = 2
    /\ tree_size = 7

\* C10: 0 <= curr < max_size and 0 <= size <= max_size in every state; curr
\* is 0 after every max_size-th add; size never decreases.
RingOccupancy ==
    /\ [](alive =>
            /\ 0 <= curr /\ curr < max_size
            /\ 0 <= size /\ size <= max_size
            /\ (nadd % max_size = 0 => curr = 0))
    /\ [][size' >= size]_vars

RingOccupancyWitness ==
    /\ alive
    /\ call.op = "add"
    /\ max_size >= 3
    /\ nadd = max_size
    /\ curr = 0
    /\ size = max_size

\* the proper ancestors of node j
RECURSIVE OnPath(_)
OnPath(j) ==
    IF j > 0 THEN {(j - 1) \div 2} \cup OnPath((j - 1) \div 2) ELSE {}

\* C13: a valid update(slot, w) sets the leaf slot + 2^depth - 1 to w, adds
\* delta = w - old leaf weight to each ancestor of that leaf, and changes no
\* other leaf, no node off the path, and neither the cursor nor the count.
UpdateFrame ==
    [][(call'.op = "update" /\ exc' = "none") =>
        LET leaf == call'.idx + Pow2(tree_depth) - 1
            delta == call'.new_value - value[leaf]
            path == OnPath(leaf)
        IN  /\ value'[leaf] = call'.new_value
            /\ \A i \in (DOMAIN value) \ {leaf} :
                 value'[i] = IF i \in path THEN value[i] + delta ELSE value[i]
            /\ UNCHANGED <<alive, max_size, tree_depth, tree_size, curr, size>>]_vars

UpdateFrameWitness ==
    /\ alive
    /\ call.op = "update"
    /\ tree_depth = 2
    /\ call.idx = 2
    /\ Leaf(2) = call.new_value
    /\ Leaf(2) > 0
    /\ Leaf(0) > 0
    /\ size > 0
    /\ size < max_size

\* C15: when total() = 0, find(target, normalize=True) returns slot 0 for every
\* target, raises nothing and changes no attribute of the tree.
FindEmpty ==
    [][(call'.op = "find" /\ call'.normalize /\ value[0] = 0) =>
        /\ ret' = 0
        /\ exc' = "none"
        /\ UNCHANGED fields]_vars

FindEmptyWitness ==
    /\ alive
    /\ call.op = "find"
    /\ call.normalize
    /\ call.target = Scale
    /\ value[0] = 0
    /\ max_size >= 3
    /\ nadd > 0
    /\ ret = 0

\* C17: for 0 <= target <= total(), find(target, normalize=False) returns a
\* slot in [0, max_size), never a padding leaf, and for target > 0 the slot
\* it returns has a positive weight.
FindInRange ==
    (call.op = "find" /\ ~call.normalize
        /\ 0 <= call.target /\ call.target <= Scale * value[0])
    => /\ 0 <= ret /\ ret < max_size
       /\ (call.target > 0 => Leaf(ret) > 0)

FindInRangeWitness ==
    /\ call.op = "find"
    /\ ~call.normalize
    /\ max_size = 3
    /\ Leaf(2) > 0
    /\ call.target = Scale * value[0]
    /\ ret = 2

\* C18: max() returns a number without raising, for every capacity, and
\* leaves the array, the cursor and the count unchanged.
MaxTotalReadOnly ==
    /\ [](call.op = "max" => exc = "none")
    /\ [][call'.op = "max" => UNCHANGED fields]_vars

\* C11 as stated: size is the number of slots that have received a value,
\* whether from update or from add.
CountIsWritten ==
    alive => size = Cardinality(written)

\* C11 amended: size is the number of slots that have received a value from
\* add, saturating at max_size; a slot written only by update is not counted.
CountIsAppended ==
    alive =>
        /\ size = Cardinality(appended)
        /\ size = Min(nadd, max_size)
        /\ appended \subseteq written
        /\ written \subseteq 0..(max_size - 1)

CountIsAppendedWitness ==
    /\ alive
    /\ call.op = "update"
    /\ max_size >= 3
    /\ size = 1
    /\ appended = {0}
    /\ written = {0, 2}
    /\ Leaf(2) > 0

\* C12: update(s, w) called again right after update(s, w) leaves every entry
\* of the array as the first call left it.
UpdateIdempotent ==
    [][(call'.op = "update" /\ call.op = "update" /\ repeat') => value' = value]_vars

UpdateIdempotentWitness ==
    /\ alive
    /\ call.op = "update"
    /\ repeat
    /\ tree_depth = 2
    /\ call.new_value > 0
    /\ Leaf(call.idx) = call.new_value
    /\ value[0] > call.new_value

\* the level of node i: 0 for the root
RECURSIVE Level(_)
Level(i) ==
    IF i <= 0 THEN 0 ELSE 1 + Level((i - 1) \div 2)

WalkBounded ==
    /\ walk.pc = "loop" =>
          /\ walk.steps <= tree_depth
          /\ walk.idx >= 0
          /\ Level(walk.idx) = tree_depth - walk.steps
    /\ walk.pc = "returned" =>
          /\ walk.idx = 0
          /\ walk.steps = tree_depth
          /\ walk.roots = IF tree_depth = 0 THEN 0 ELSE 1

DescentBounded ==
    /\ descent.pc = "loop" =>
          /\ descent.steps <= tree_depth
          /\ Level(descent.index) = descent.steps
    /\ descent.pc = "returned" =>
          /\ descent.steps = tree_depth
          /\ 2 * descent.index + 1 > tree_size - 1
          /\ call.op = "find" => ret = descent.index - (Pow2(tree_depth) - 1)

\* C14: update's walk goes from the leaf to the parent floor((idx-1)/2) at
\* each step, updates the root once and returns after exactly tree_depth
\* steps (none for capacity 1); find's descent returns at a leaf after
\* exactly tree_depth descents with leaf index - (2^depth - 1); both end.
WalksTerminate ==
    /\ [](WalkBounded /\ DescentBounded)
    /\ (walk.pc = "loop" ~> walk.pc = "returned")
    /\ (descent.pc = "loop" ~> descent.pc = "returned")

WalksTerminateWitness ==
    /\ alive
    /\ tree_depth = 2
    /\ walk.pc = "returned"
    /\ walk.steps = 2
    /\ walk.roots = 1
    /\ walk.diff > 0
    /\ descent.pc = "returned"
    /\ descent.steps = 2
    /\ descent.index = 5
    /\ ret = 2

\* C16: when no update is in the middle of its walk every internal node is the
\* sum of its children; in the middle of a walk with a non-zero diff and the
\* root not yet reached, the parent of the walk's node is not the sum of its
\* children, and a reader scheduled there sees it.
UpdateNotAtomic ==
    alive =>
        /\ (walk.pc # "loop" => InternalSums)
        /\ (walk.pc = "loop" /\ walk.idx = 0 => InternalSums)
        /\ (walk.pc = "loop" /\ walk.idx > 0 /\ walk.diff # 0 =>
              LET father == (walk.idx - 1) \div 2
              IN  value[father] # value[2 * father + 1] + value[2 * father + 2])

UpdateNotAtomicWitness ==
    /\ alive
    /\ walk.pc = "loop"
    /\ walk.steps = 1
    /\ tree_depth = 2
    /\ ~InternalSums
    /\ call.op = "total"
    /\ ret # Prefix(NLeaves - 1)

====
